---- MODULE Spec2Model ----
(***************************************************************************)
(* Model of the doppelganger mock server (Python implementation):          *)
(*   - expressions.py : expression builder (type check) and evaluator      *)
(*   - config.py      : configuration loader                               *)
(*   - server.py      : request dispatcher                                 *)
(*   - params_migrator.py : offline params migrator                        *)
(*                                                                         *)
(* Values.  A JSON / Python value is a tagged tuple whose first element    *)
(* names its kind:                                                         *)
(*   <<"null">>  <<"bool", b>>  <<"num", n>>  <<"str", s>>                 *)
(*   <<"list", seq>>  <<"obj", f>>   (f a function from keys to values)    *)
(* A raised exception is <<"raise", class, message>>.                      *)
(* Request-time strings (query values, body strings, literals, patterns)   *)
(* are sequences of one-character strings, so that splitting, searching    *)
(* and number formatting are computed character by character; the strings  *)
(* that only serve as keys or discriminators ("type", "id", "key") are     *)
(* plain TLA+ strings.                                                     *)
(***************************************************************************)
EXTENDS Integers, Sequences, FiniteSets, TLC

VARIABLES
    bIn,        \* builder: the JSON expression handed to build_expression
    bOut,       \* builder: what build_expression returned or raised (None before the call)
    eExpr,      \* evaluator: the built expression under evaluation
    eFetch,     \* evaluator: the fetchers of the request it is evaluated against
    eOut,       \* evaluator: the result of evaluate (NoResult before the call)
    files,      \* migrator: the JSON files, by name (None: no such file)
    mExit,      \* migrator: how its last run ended ("-": it has not run)
    cfgData,    \* server: the JSON read from the configuration file
    phase,      \* server: "start", "serving", "exit2" (configuration rejected); "-": not run
    servers,    \* server: what parse_servers returned or raised (None before the call)
    th          \* server: the request handler of each thread

buildVars == <<bIn, bOut>>
evalVars == <<eExpr, eFetch, eOut>>
migrVars == <<files, mExit>>
servVars == <<cfgData, phase, servers, th>>
vars == <<bIn, bOut, eExpr, eFetch, eOut, files, mExit, cfgData, phase, servers, th>>

(***************************************************************************)
(* Bounds of the model.                                                    *)
(***************************************************************************)
MaxArity == 2       \* longest "expressions" / "values" list of a JSON expression handed to the builder
MaxChildren == 3    \* most children of an AND / OR handed to the evaluator
MaxValues == 2      \* most repetitions of one query key in a request
MaxParams == 2      \* longest "params" array of a file handed to the migrator
MaxMappings == 2    \* longest "mappings" list of a generated endpoint

(***************************************************************************)
(* JSON / Python values.                                                   *)
(***************************************************************************)
JNull == <<"null">>
JBool(b) == <<"bool", b>>
JNum(n) == <<"num", n>>
JStr(s) == <<"str", s>>
JList(s) == <<"list", s>>
JObj(f) == <<"obj", f>>

Kind(v) == v[1]
Raise(cls, msg) == <<"raise", cls, msg>>
IsRaise(v) == v[1] = "raise"

\* dict membership and lookup
HasKey(d, k) == k \in DOMAIN d[2]
Item(d, k) == d[2][k]

\* all sequences over S of length at most n
SeqsUpTo(S, n) == UNION {[1..k -> S] : k \in 0..n}

\* the first raise among a list of results (a comprehension stops at the first
\* element whose construction raises)
FirstRaise(rs) == rs[CHOOSE i \in 1..Len(rs) : IsRaise(rs[i]) /\ \A j \in 1..(i-1) : ~IsRaise(rs[j])]
AnyRaise(rs) == \E i \in 1..Len(rs) : IsRaise(rs[i])

(***************************************************************************)
(* expressions.py: the expression classes.  A built Expression object is   *)
(*   <<"AND", children>>  <<"OR", children>>  <<"NOT", child>>             *)
(*   <<"CONTAINS", list_expr, values>>  <<"EQUALS", left, right>>          *)
(*   <<"REGEX", value, pattern>>  <<"BODY", id>>  <<"QUERY", id>>          *)
(*   <<"QUERY_ARRAY", id>>  <<"PATH", id>>  <<"STRING", value>>            *)
(***************************************************************************)
AndExpression(expressions) == <<"AND", expressions>>
OrExpression(expressions) == <<"OR", expressions>>
NotExpression(expression) == <<"NOT", expression>>
ContainsExpression(list_expr, values) == <<"CONTAINS", list_expr, values>>
EqualsExpression(left, right) == <<"EQUALS", left, right>>
BodyValueExpression(id) == <<"BODY", id>>
QueryValueExpression(id) == <<"QUERY", id>>
QueryArrayValueExpression(id) == <<"QUERY_ARRAY", id>>
PathValueExpression(id) == <<"PATH", id>>
StringValueExpression(value) == <<"STRING", value>>

\* re.compile(pattern): the patterns of the model are literal characters, which
\* compile, and patterns holding an unbalanced "(", which raise re.error
PatternCompiles(pattern) == \A i \in 1..Len(pattern) : pattern[i] # "("

RegexExpression(value, pattern) ==
    IF PatternCompiles(pattern) THEN <<"REGEX", value, pattern>>
    ELSE Raise("re.error", "missing ), unterminated subpattern")

\* Expression.return_type()
return_type(e) ==
    CASE e[1] \in {"AND", "OR", "NOT", "CONTAINS", "EQUALS", "REGEX"} -> "bool"
      [] e[1] \in {"BODY", "QUERY", "PATH", "STRING"} -> "str"
      [] e[1] = "QUERY_ARRAY" -> "list"

EXPRESSION_REGISTRY ==
    {"AND", "OR", "NOT", "CONTAINS", "EQUALS", "REGEX",
     "BODY", "QUERY", "QUERY_ARRAY", "PATH", "STRING"}

RECURSIVE build_expression(_)

\* [build_expression(expr) for expr in xs]: the built list, or the first raise
BuildList(xs) ==
    LET rs == [i \in 1..Len(xs) |-> build_expression(xs[i])]
    IN IF AnyRaise(rs) THEN FirstRaise(rs) ELSE JList(rs)

\* the first element of a built list whose return type is not t (0 if none)
FirstNotOfType(es, t) ==
    IF \E i \in 1..Len(es) : return_type(es[i]) # t
    THEN CHOOSE i \in 1..Len(es) : return_type(es[i]) # t /\ \A j \in 1..(i-1) : return_type(es[j]) = t
    ELSE 0

and_factory(data) ==
    IF ~HasKey(data, "expressions") THEN Raise("KeyError", "expressions")
    ELSE LET expressions == BuildList(Item(data, "expressions")[2])
         IN IF IsRaise(expressions) THEN expressions
            ELSE IF FirstNotOfType(expressions[2], "bool") # 0
                 THEN Raise("ValueError", "AND values must be bool")
                 ELSE AndExpression(expressions[2])

or_factory(data) ==
    IF ~HasKey(data, "expressions") THEN Raise("KeyError", "expressions")
    ELSE LET expressions == BuildList(Item(data, "expressions")[2])
         IN IF IsRaise(expressions) THEN expressions
            ELSE IF FirstNotOfType(expressions[2], "bool") # 0
                 THEN Raise("ValueError", "OR values must be bool")
                 ELSE OrExpression(expressions[2])

\* a faulty variant, for comparison: NOT without its return-type check
not_factory_unchecked(data) ==
    IF ~HasKey(data, "expression") THEN Raise("KeyError", "expression")
    ELSE LET expression == build_expression(Item(data, "expression"))
         IN IF IsRaise(expression) THEN expression ELSE NotExpression(expression)

not_factory(data) ==
    IF ~HasKey(data, "expression") THEN Raise("KeyError", "expression")
    ELSE LET expression == build_expression(Item(data, "expression"))
         IN IF IsRaise(expression) THEN expression
            ELSE IF return_type(expression) # "bool"
                 THEN Raise("ValueError", "NOT value must be bool")
                 ELSE NotExpression(expression)

contains_factory(data) ==
    IF ~HasKey(data, "values") THEN Raise("ValueError", "CONTAINS must have values attribute")
    ELSE IF ~HasKey(data, "list") THEN Raise("ValueError", "CONTAINS must have list attribute")
    ELSE LET values == BuildList(Item(data, "values")[2])
         IN IF IsRaise(values) THEN values
            ELSE IF FirstNotOfType(values[2], "str") # 0
                 THEN Raise("ValueError", "CONTAINS values must be string")
                 ELSE LET list_expr == build_expression(Item(data, "list"))
                      IN IF IsRaise(list_expr) THEN list_expr
                         ELSE IF return_type(list_expr) # "list"
                              THEN Raise("ValueError", "CONTAINS list must be list")
                              ELSE ContainsExpression(list_expr, values[2])

equals_factory(data) ==
    IF ~HasKey(data, "right") THEN Raise("KeyError", "right")
    ELSE LET right == build_expression(Item(data, "right"))
         IN IF IsRaise(right) THEN right
            ELSE IF ~HasKey(data, "left") THEN Raise("KeyError", "left")
            ELSE LET left == build_expression(Item(data, "left"))
                 IN IF IsRaise(left) THEN left
                    ELSE IF return_type(right) # return_type(left)
                         THEN Raise("ValueError", "EQUALS right and left must be the same type")
                         ELSE EqualsExpression(left, right)

regex_factory(data) ==
    IF ~HasKey(data, "value") THEN Raise("KeyError", "value")
    ELSE LET value == build_expression(Item(data, "value"))
         IN IF IsRaise(value) THEN value
            ELSE IF ~HasKey(data, "pattern") THEN Raise("KeyError", "pattern")
            ELSE IF return_type(value) # "str"
                 THEN Raise("ValueError", "REGEX value must be string")
                 ELSE RegexExpression(value, Item(data, "pattern")[2])

body_factory(data) ==
    IF ~HasKey(data, "id") THEN Raise("KeyError", "id")
    ELSE BodyValueExpression(Item(data, "id")[2])

query_factory(data) ==
    IF ~HasKey(data, "id") THEN Raise("KeyError", "id")
    ELSE QueryValueExpression(Item(data, "id")[2])

query_array_factory(data) ==
    IF ~HasKey(data, "id") THEN Raise("KeyError", "id")
    ELSE QueryArrayValueExpression(Item(data, "id")[2])

path_factory(data) ==
    IF ~HasKey(data, "id") THEN Raise("KeyError", "id")
    ELSE PathValueExpression(Item(data, "id")[2])

string_factory(data) ==
    IF ~HasKey(data, "value") THEN Raise("KeyError", "value")
    ELSE StringValueExpression(Item(data, "value")[2])

\* data.get("type"): None when the key is missing
type_name(data) == IF HasKey(data, "type") THEN Item(data, "type") ELSE JNull

build_expression(data) ==
    IF Kind(data) # "obj" THEN Raise("AttributeError", "object has no attribute 'get'")
    ELSE LET t == type_name(data)
         IN IF ~(Kind(t) = "str" /\ t[2] \in EXPRESSION_REGISTRY)
            THEN Raise("ValueError", "Unknown expression type")
            ELSE CASE t[2] = "AND" -> and_factory(data)
                   [] t[2] = "OR" -> or_factory(data)
                   [] t[2] = "NOT" -> not_factory(data)
                   [] t[2] = "CONTAINS" -> contains_factory(data)
                   [] t[2] = "EQUALS" -> equals_factory(data)
                   [] t[2] = "REGEX" -> regex_factory(data)
                   [] t[2] = "BODY" -> body_factory(data)
                   [] t[2] = "QUERY" -> query_factory(data)
                   [] t[2] = "QUERY_ARRAY" -> query_array_factory(data)
                   [] t[2] = "PATH" -> path_factory(data)
                   [] t[2] = "STRING" -> string_factory(data)

(***************************************************************************)
(* Python built-ins the evaluator and the server rely on.                  *)
(***************************************************************************)
\* bool(v) / "not v"
PyTruthy(v) ==
    CASE Kind(v) = "null" -> FALSE
      [] Kind(v) = "bool" -> v[2]
      [] Kind(v) = "num" -> v[2] # 0
      [] Kind(v) = "str" -> Len(v[2]) > 0
      [] Kind(v) = "list" -> Len(v[2]) > 0
      [] Kind(v) = "obj" -> DOMAIN v[2] # {}

Digits == <<"0", "1", "2", "3", "4", "5", "6", "7", "8", "9">>

RECURSIVE DecStr(_)
\* str(n) of a non-negative int: its decimal digits
DecStr(n) == IF n < 10 THEN <<Digits[n + 1]>> ELSE DecStr(n \div 10) \o <<Digits[(n % 10) + 1]>>

\* repr(s) of a string without quotes or escapes
PyReprStr(s) == <<"'">> \o s \o <<"'">>

RECURSIVE PyReprItems(_)
\* ", ".join(repr(x) for x in xs), xs strings
PyReprItems(xs) ==
    IF Len(xs) = 0 THEN <<>>
    ELSE IF Len(xs) = 1 THEN PyReprStr(xs[1][2])
    ELSE PyReprStr(xs[1][2]) \o <<",", " ">> \o PyReprItems(Tail(xs))

\* str(v), v not None
PyStr(v) ==
    CASE Kind(v) = "str" -> v[2]
      [] Kind(v) = "num" -> IF v[2] < 0 THEN <<"-">> \o DecStr(0 - v[2]) ELSE DecStr(v[2])
      [] Kind(v) = "bool" -> IF v[2] THEN <<"T", "r", "u", "e">> ELSE <<"F", "a", "l", "s", "e">>
      [] Kind(v) = "list" -> <<"[">> \o PyReprItems(v[2]) \o <<"]">>

\* sub in s, both strings
Contains(s, sub) ==
    \E i \in 0..(Len(s) - Len(sub)) : \A j \in 1..Len(sub) : s[i + j] = sub[j]

RECURSIVE Split(_, _)
\* s.split(sep), sep one character
Split(s, sep) ==
    IF \E i \in 1..Len(s) : s[i] = sep
    THEN LET i == CHOOSE k \in 1..Len(s) : s[k] = sep /\ \A j \in 1..(k - 1) : s[j] # sep
         IN <<SubSeq(s, 1, i - 1)>> \o Split(SubSeq(s, i + 1, Len(s)), sep)
    ELSE <<s>>

(***************************************************************************)
(* server.py: the fetchers of one request.  A request's data is            *)
(*   body        : what read_body returned (None, a dict, or any other     *)
(*                 parsed JSON value)                                      *)
(*   args        : request.args, key -> the values of the key in order     *)
(*                 (no values: the key is absent)                          *)
(*   path_params : the values captured by the route's placeholders         *)
(***************************************************************************)
\* create_fetchers: body_fetcher = body or {}
create_fetchers(body, args, path_params) ==
    [body_fetcher |-> IF PyTruthy(body) THEN body ELSE JObj(<<>>),
     args |-> args,
     path_params |-> path_params]

\* request.args.get(key, "")
query_fetcher(fetchers, key) ==
    IF key \in DOMAIN fetchers.args /\ Len(fetchers.args[key]) > 0
    THEN fetchers.args[key][1] ELSE <<>>

\* request.args.getlist(key)
query_array_fetcher(fetchers, key) ==
    IF key \in DOMAIN fetchers.args THEN fetchers.args[key] ELSE <<>>

\* path_params.get(key, "")
param_fetcher(fetchers, key) ==
    IF key \in DOMAIN fetchers.path_params THEN fetchers.path_params[key] ELSE <<>>

(***************************************************************************)
(* expressions.py: evaluate.  evaluate(e, fetchers, path) is               *)
(*   [val |-> the value returned or the exception raised,                  *)
(*    log |-> the nodes whose evaluate ran, in call order]                 *)
(* where a node is named by its path from the root (child indices; for     *)
(* CONTAINS the list is child 1 and the values follow, for EQUALS left is  *)
(* child 1 and right child 2).                                             *)
(***************************************************************************)
Result(v, l) == [val |-> v, log |-> l]

BodyValueExpression_evaluate(id, fetchers) ==
    IF Kind(fetchers.body_fetcher) # "obj"
    THEN Raise("AttributeError", "object has no attribute 'get'")
    ELSE LET value == IF HasKey(fetchers.body_fetcher, id)
                      THEN Item(fetchers.body_fetcher, id) ELSE JNull
         IN IF value # JNull THEN JStr(PyStr(value)) ELSE JStr(<<>>)

QueryValueExpression_evaluate(id, fetchers) == JStr(query_fetcher(fetchers, id))

RECURSIVE SplitEach(_)
\* every value split on commas, the parts of all of them in order
SplitEach(values) ==
    IF Len(values) = 0 THEN <<>> ELSE Split(values[1], ",") \o SplitEach(Tail(values))

\* a faulty variant, for comparison: QUERY_ARRAY splitting every repetition of the key
QueryArrayValueExpression_evaluate_each(id, fetchers) ==
    JList(SplitEach(query_array_fetcher(fetchers, id)))

QueryArrayValueExpression_evaluate(id, fetchers) ==
    LET value == query_fetcher(fetchers, id)
    IN IF Contains(value, <<",">>) THEN JList(Split(value, ","))
       ELSE JList(query_array_fetcher(fetchers, id))

PathValueExpression_evaluate(id, fetchers) == JStr(param_fetcher(fetchers, id))

StringValueExpression_evaluate(value) == JStr(value)

RECURSIVE evaluate(_, _, _)
RECURSIVE AndExpression_loop(_, _, _, _)
RECURSIVE OrExpression_loop(_, _, _, _)
RECURSIVE ContainsExpression_loop(_, _, _, _, _)

RECURSIVE AndExpression_loop_eager(_, _, _, _)
\* a faulty variant, for comparison: AND as all([expr.evaluate(fetchers) for expr in self.expressions]),
\* which evaluates every child
AndExpression_loop_eager(es, i, fetchers, path) ==
    IF i > Len(es) THEN Result(JBool(TRUE), <<>>)
    ELSE LET r == evaluate(es[i], fetchers, Append(path, i))
         IN IF IsRaise(r.val) THEN r
            ELSE LET rest == AndExpression_loop_eager(es, i + 1, fetchers, path)
                 IN IF IsRaise(rest.val) THEN Result(rest.val, r.log \o rest.log)
                    ELSE Result(JBool(PyTruthy(r.val) /\ rest.val[2]), r.log \o rest.log)

\* for expr in self.expressions[i:]: if not expr.evaluate(fetchers): return False
AndExpression_loop(es, i, fetchers, path) ==
    IF i > Len(es) THEN Result(JBool(TRUE), <<>>)
    ELSE LET r == evaluate(es[i], fetchers, Append(path, i))
         IN IF IsRaise(r.val) THEN r
            ELSE IF ~PyTruthy(r.val) THEN Result(JBool(FALSE), r.log)
            ELSE LET rest == AndExpression_loop(es, i + 1, fetchers, path)
                 IN Result(rest.val, r.log \o rest.log)

\* for expr in self.expressions[i:]: if expr.evaluate(fetchers): return True
OrExpression_loop(es, i, fetchers, path) ==
    IF i > Len(es) THEN Result(JBool(FALSE), <<>>)
    ELSE LET r == evaluate(es[i], fetchers, Append(path, i))
         IN IF IsRaise(r.val) THEN r
            ELSE IF PyTruthy(r.val) THEN Result(JBool(TRUE), r.log)
            ELSE LET rest == OrExpression_loop(es, i + 1, fetchers, path)
                 IN Result(rest.val, r.log \o rest.log)

\* for value_expr in self.values[i:]: if value_expr.evaluate(fetchers) not in list_values: return False
ContainsExpression_loop(list_values, vs, i, fetchers, path) ==
    IF i > Len(vs) THEN Result(JBool(TRUE), <<>>)
    ELSE LET r == evaluate(vs[i], fetchers, Append(path, i + 1))
         IN IF IsRaise(r.val) THEN r
            ELSE IF ~(\E k \in 1..Len(list_values) : list_values[k] = r.val[2])
                 THEN Result(JBool(FALSE), r.log)
            ELSE LET rest == ContainsExpression_loop(list_values, vs, i + 1, fetchers, path)
                 IN Result(rest.val, r.log \o rest.log)

AndExpression_evaluate(e, fetchers, path) == AndExpression_loop(e[2], 1, fetchers, path)

OrExpression_evaluate(e, fetchers, path) == OrExpression_loop(e[2], 1, fetchers, path)

NotExpression_evaluate(e, fetchers, path) ==
    LET r == evaluate(e[2], fetchers, Append(path, 1))
    IN IF IsRaise(r.val) THEN r ELSE Result(JBool(~PyTruthy(r.val)), r.log)

ContainsExpression_evaluate(e, fetchers, path) ==
    LET l == evaluate(e[2], fetchers, Append(path, 1))
    IN IF IsRaise(l.val) THEN l
       ELSE LET r == ContainsExpression_loop(l.val[2], e[3], 1, fetchers, path)
            IN Result(r.val, l.log \o r.log)

EqualsExpression_evaluate(e, fetchers, path) ==
    LET left_val == evaluate(e[2], fetchers, Append(path, 1))
    IN IF IsRaise(left_val.val) THEN left_val
       ELSE LET right_val == evaluate(e[3], fetchers, Append(path, 2))
            IN IF IsRaise(right_val.val) THEN Result(right_val.val, left_val.log \o right_val.log)
               ELSE Result(JBool(Kind(left_val.val) = Kind(right_val.val)
                                 /\ left_val.val[2] = right_val.val[2]),
                           left_val.log \o right_val.log)

\* bool(self._compiled.search(value)): the pattern is a literal, found anywhere
RegexExpression_evaluate(e, fetchers, path) ==
    LET value == evaluate(e[2], fetchers, Append(path, 1))
    IN IF IsRaise(value.val) THEN value
       ELSE Result(JBool(Contains(value.val[2], e[3])), value.log)

evaluate(e, fetchers, path) ==
    LET r == CASE e[1] = "AND" -> AndExpression_evaluate(e, fetchers, path)
               [] e[1] = "OR" -> OrExpression_evaluate(e, fetchers, path)
               [] e[1] = "NOT" -> NotExpression_evaluate(e, fetchers, path)
               [] e[1] = "CONTAINS" -> ContainsExpression_evaluate(e, fetchers, path)
               [] e[1] = "EQUALS" -> EqualsExpression_evaluate(e, fetchers, path)
               [] e[1] = "REGEX" -> RegexExpression_evaluate(e, fetchers, path)
               [] e[1] = "BODY" -> Result(BodyValueExpression_evaluate(e[2], fetchers), <<>>)
               [] e[1] = "QUERY" -> Result(QueryValueExpression_evaluate(e[2], fetchers), <<>>)
               [] e[1] = "QUERY_ARRAY" -> Result(QueryArrayValueExpression_evaluate(e[2], fetchers), <<>>)
               [] e[1] = "PATH" -> Result(PathValueExpression_evaluate(e[2], fetchers), <<>>)
               [] e[1] = "STRING" -> Result(StringValueExpression_evaluate(e[2]), <<>>)
    IN Result(r.val, <<path>> \o r.log)

(***************************************************************************)
(* server.py: the request handler.  A request is                           *)
(*   [server, endpoint : the route it was dispatched to,                   *)
(*    method, content_type,                                                *)
(*    data : the body: the JSON value its text denotes, Unparseable, or    *)
(*           <<"form", f>> with f the form fields (key -> values),         *)
(*    args, path_params]                                                   *)
(* and a response is [mapping, status, body], mapping being the index of   *)
(* the mapping that answered (0: none did).                                *)
(***************************************************************************)
Unparseable == <<"unparseable">>

\* "application/json" in content_type
IsJsonType(content_type) ==
    content_type \in {"application/json", "application/json; charset=utf-8"}

\* "application/x-www-form-urlencoded" in content_type or "multipart/form-data" in content_type
IsFormType(content_type) ==
    content_type \in {"application/x-www-form-urlencoded", "multipart/form-data"}

\* request.get_json(force=True, silent=True): None when the body does not parse
get_json(req) == IF req.data = Unparseable THEN JNull ELSE req.data

read_body(req) ==
    IF IsJsonType(req.content_type)
    THEN IF PyTruthy(get_json(req)) THEN get_json(req) ELSE JObj(<<>>)
    ELSE IF IsFormType(req.content_type)
    THEN LET form == req.data[2]
         IN JObj([key \in DOMAIN form |->
                     IF Len(form[key]) > 1
                     THEN JList([i \in 1..Len(form[key]) |-> JStr(form[key][i])])
                     ELSE JStr(form[key][1])])
    ELSE JNull

RECURSIVE all_match_loop(_, _, _)
\* for param in params[i:]: if not param.evaluate(fetchers): return False
all_match_loop(fetchers, params, i) ==
    IF i > Len(params) THEN JBool(TRUE)
    ELSE LET v == evaluate(params[i], fetchers, <<i>>).val
         IN IF IsRaise(v) THEN v
            ELSE IF ~PyTruthy(v) THEN JBool(FALSE)
            ELSE all_match_loop(fetchers, params, i + 1)

all_match(fetchers, params) == all_match_loop(fetchers, params, 1)

\* an uncaught exception in a view: Flask answers 500
InternalServerError(exc) == [mapping |-> 0, status |-> 500, body |-> <<"error", exc[2]>>]

\* build_response; send_file raises when the file cannot be opened
build_response(mapping, idx, file_exists) ==
    IF mapping.content = JNull
    THEN [mapping |-> idx, status |-> mapping.resp_code[2], body |-> <<"empty">>]
    ELSE IF mapping.content[2] = "JSON"
    THEN [mapping |-> idx, status |-> mapping.resp_code[2], body |-> <<"json", mapping.content[3]>>]
    ELSE IF mapping.content[2] = "FILE"
    THEN IF file_exists
         THEN [mapping |-> idx, status |-> mapping.resp_code[2], body |-> <<"file", mapping.content[3]>>]
         ELSE [mapping |-> idx, status |-> 500, body |-> <<"error", "FileNotFoundError">>]
    ELSE [mapping |-> idx, status |-> mapping.resp_code[2], body |-> <<"empty">>]

\* jsonify({"error": "No matching mapping found"}), 404
NotFoundResponse ==
    [mapping |-> 0, status |-> 404,
     body |-> <<"json", JObj([error |-> JStr("No matching mapping found")])>>]

(***************************************************************************)
(* config.py: the configuration loader.  Parsed objects:                   *)
(*   Content       <<"Content", type, data>>  (None: JNull)                *)
(*   Mapping       [params, resp_code, content]                            *)
(*   Endpoint      [path, verb, mappings]                                  *)
(*   Configuration [port, endpoints]                                       *)
(*   Servers       <<"Servers", configurations>>                           *)
(***************************************************************************)
\* data.get(key, default)
Get(data, key, default) == IF HasKey(data, key) THEN Item(data, key) ELSE default

parse_content(data) ==
    IF data = JNull THEN JNull
    ELSE IF Get(data, "type", JStr("JSON")) \notin {JStr("JSON"), JStr("FILE")}
    THEN Raise("ValueError", "is not a valid ContentType")
    ELSE IF Get(data, "type", JStr("JSON")) = JStr("FILE")
    THEN <<"Content", "FILE", Get(Get(data, "data", JObj(<<>>)), "path", JStr(""))>>
    ELSE <<"Content", "JSON", Get(data, "data", JNull)>>

\* a faulty variant, for comparison: parse_mapping defaulting to 200 whatever the content
parse_mapping_code_always200(params, content, code) ==
    <<"Mapping", [params |-> params,
                  resp_code |-> IF code = JNull THEN JNum(200) ELSE code,
                  content |-> content]>>

\* parse_mapping, from "resp_code = data.get("code")" on
parse_mapping_code(params, content, code) ==
    <<"Mapping", [params |-> params,
                  resp_code |-> IF code = JNull
                                THEN IF content = JNull THEN JNum(204) ELSE JNum(200)
                                ELSE code,
                  content |-> content]>>

\* parse_mapping, from "content = parse_content(content_data)" on
parse_mapping_content(data, params, content) ==
    IF IsRaise(content) THEN content
    ELSE parse_mapping_code(params, content, Get(data, "code", JNull))

\* parse_mapping, once the params are built
parse_mapping_params(data, params) ==
    IF IsRaise(params) THEN params
    ELSE parse_mapping_content(data, params[2], parse_content(Get(data, "content", JNull)))

parse_mapping(data) ==
    parse_mapping_params(data, BuildList(Get(data, "params", JList(<<>>))[2]))

\* a list comprehension over parsed objects: the list, or the first raise
ParsedList(rs) ==
    IF AnyRaise(rs) THEN FirstRaise(rs) ELSE JList([i \in 1..Len(rs) |-> rs[i][2]])

Endpoint(data, mappings) ==
    IF IsRaise(mappings) THEN mappings
    ELSE <<"Endpoint", [path |-> Get(data, "path", JStr("/"))[2],
                        verb |-> Get(data, "verb", JStr("GET"))[2],
                        mappings |-> mappings[2]]>>

parse_endpoint(data) ==
    Endpoint(data, ParsedList([i \in 1..Len(Get(data, "mappings", JList(<<>>))[2]) |->
                                  parse_mapping(Get(data, "mappings", JList(<<>>))[2][i])]))

Configuration(data, endpoints) ==
    IF IsRaise(endpoints) THEN endpoints
    ELSE <<"Configuration", [port |-> Get(data, "port", JNum(8000))[2],
                             endpoints |-> endpoints[2]]>>

parse_configuration(data) ==
    Configuration(data, ParsedList([i \in 1..Len(Get(data, "endpoint", JList(<<>>))[2]) |->
                                       parse_endpoint(Get(data, "endpoint", JList(<<>>))[2][i])]))

Servers(configurations) ==
    IF IsRaise(configurations) THEN configurations
    ELSE <<"Servers", configurations[2]>>

\* a faulty variant, for comparison: parse_servers without the check for an empty list
parse_servers_list_unchecked(servers_data) ==
    IF Kind(servers_data) # "list" THEN Raise("TypeError", "object is not iterable")
    ELSE Servers(ParsedList([i \in 1..Len(servers_data[2]) |-> parse_configuration(servers_data[2][i])]))

\* parse_servers when the "servers" key is present
parse_servers_list(servers_data) ==
    IF ~PyTruthy(servers_data) THEN Raise("ValueError", "No server found")
    ELSE IF Kind(servers_data) # "list" THEN Raise("TypeError", "object is not iterable")
    ELSE Servers(ParsedList([i \in 1..Len(servers_data[2]) |-> parse_configuration(servers_data[2][i])]))

parse_servers(data) ==
    IF HasKey(data, "servers")
    THEN parse_servers_list(Item(data, "servers"))
    ELSE Servers(ParsedList(<<parse_configuration(data)>>))

(***************************************************************************)
(* params_migrator.py.  Every string of a migrated file is a sequence of   *)
(* characters.                                                             *)
(***************************************************************************)
S_key == <<"k", "e", "y">>
S_type == <<"t", "y", "p", "e">>
S_value == <<"v", "a", "l", "u", "e">>
S_EQUALS == <<"E", "Q", "U", "A", "L", "S">>
S_STRING == <<"S", "T", "R", "I", "N", "G">>

\* k in param
PyIn(k, ks, param) ==
    CASE Kind(param) = "obj" -> k \in DOMAIN param[2]
      [] Kind(param) = "str" -> Contains(param[2], ks)
      [] Kind(param) = "list" -> \E i \in 1..Len(param[2]) : param[2][i] = JStr(ks)
      [] OTHER -> FALSE

\* a faulty variant, for comparison: transform_param keeping the fields of the shorthand element beside
\* the new ones ({**param, "type": "EQUALS", ...})
transform_param_merge(param) ==
    IF Kind(param) \in {"num", "bool", "null"}
    THEN Raise("TypeError", "argument is not iterable")
    ELSE IF ~(PyIn("key", S_key, param) /\ PyIn("type", S_type, param) /\ PyIn("value", S_value, param))
    THEN param
    ELSE IF Kind(param) # "obj"
    THEN Raise("TypeError", "indices must be integers")
    ELSE JObj([k \in DOMAIN param[2] \cup {"type", "left", "right"} |->
                 CASE k = "type" -> JStr(S_EQUALS)
                   [] k = "left" -> JObj([type |-> Item(param, "type"), id |-> Item(param, "key")])
                   [] k = "right" -> JObj([type |-> JStr(S_STRING), value |-> Item(param, "value")])
                   [] OTHER -> Item(param, k)])

transform_param(param) ==
    IF Kind(param) \in {"num", "bool", "null"}
    THEN Raise("TypeError", "argument is not iterable")
    ELSE IF ~(PyIn("key", S_key, param) /\ PyIn("type", S_type, param) /\ PyIn("value", S_value, param))
    THEN param
    ELSE IF Kind(param) # "obj"
    THEN Raise("TypeError", "indices must be integers")
    ELSE JObj([type |-> JStr(S_EQUALS),
               left |-> JObj([type |-> Item(param, "type"), id |-> Item(param, "key")]),
               right |-> JObj([type |-> JStr(S_STRING), value |-> Item(param, "value")])])

RECURSIVE transform_structure(_)
transform_structure(obj) ==
    CASE Kind(obj) = "obj" ->
            LET new_obj == [k \in DOMAIN obj[2] |->
                               IF k = "params" /\ Kind(obj[2][k]) = "list"
                               THEN LET ps == [i \in 1..Len(obj[2][k][2]) |-> transform_param(obj[2][k][2][i])]
                                    IN IF AnyRaise(ps) THEN FirstRaise(ps) ELSE JList(ps)
                               ELSE transform_structure(obj[2][k])]
            IN IF \E k \in DOMAIN new_obj : IsRaise(new_obj[k])
               THEN Raise("TypeError", "argument is not iterable")
               ELSE JObj(new_obj)
      [] Kind(obj) = "list" ->
            LET items == [i \in 1..Len(obj[2]) |-> transform_structure(obj[2][i])]
            IN IF AnyRaise(items) THEN FirstRaise(items) ELSE JList(items)
      [] OTHER -> obj

(***************************************************************************)
(* JSON expressions handed to the builder: every leaf, every composite     *)
(* over the leaves, and every composite over a sample of both, with the    *)
(* malformed shapes (unknown or missing "type", missing fields, children   *)
(* of the wrong return type, a pattern that does not compile) among them.  *)
(***************************************************************************)
S_x == <<"x">>
S_y == <<"y">>
S_paren == <<"(">>

J_AND(xs) == JObj([type |-> JStr("AND"), expressions |-> JList(xs)])
J_OR(xs) == JObj([type |-> JStr("OR"), expressions |-> JList(xs)])
J_NOT(x) == JObj([type |-> JStr("NOT"), expression |-> x])
J_EQUALS(l, r) == JObj([type |-> JStr("EQUALS"), left |-> l, right |-> r])
J_CONTAINS(l, vs) == JObj([type |-> JStr("CONTAINS"), list |-> l, values |-> JList(vs)])
J_REGEX(v, p) == JObj([type |-> JStr("REGEX"), value |-> v, pattern |-> JStr(p)])
J_BODY(id) == JObj([type |-> JStr("BODY"), id |-> JStr(id)])
J_QUERY(id) == JObj([type |-> JStr("QUERY"), id |-> JStr(id)])
J_QUERY_ARRAY(id) == JObj([type |-> JStr("QUERY_ARRAY"), id |-> JStr(id)])
J_PATH(id) == JObj([type |-> JStr("PATH"), id |-> JStr(id)])
J_STRING(v) == JObj([type |-> JStr("STRING"), value |-> JStr(v)])

J_UnknownType == JObj([type |-> JStr("XOR"), id |-> JStr("u")])
J_MissingType == JObj([id |-> JStr("u")])
J_NumberType == JObj([type |-> JNum(3)])

JsonLeaves ==
    {J_BODY("u"), J_QUERY("a"), J_QUERY_ARRAY("a"), J_PATH("p"), J_STRING(S_x),
     J_UnknownType, J_MissingType, J_NumberType}

\* the composites whose children are drawn from C (lists from L)
JsonComposites(C, L) ==
    {J_AND(xs) : xs \in SeqsUpTo(C, MaxArity)}
    \cup {J_OR(xs) : xs \in SeqsUpTo(C, MaxArity)}
    \cup {J_NOT(x) : x \in C}
    \cup {J_EQUALS(l, r) : l \in C, r \in C}
    \cup {J_CONTAINS(l, vs) : l \in L, vs \in SeqsUpTo(C, MaxArity)}
    \cup {J_REGEX(v, p) : v \in C, p \in {S_x, S_paren}}

\* composites with a required field missing
JsonIncomplete ==
    {JObj([type |-> JStr("AND")]), JObj([type |-> JStr("OR")]), JObj([type |-> JStr("NOT")]),
     JObj([type |-> JStr("EQUALS"), left |-> J_BODY("u")]),
     JObj([type |-> JStr("EQUALS"), right |-> J_BODY("u")]),
     JObj([type |-> JStr("CONTAINS"), list |-> J_QUERY_ARRAY("a")]),
     JObj([type |-> JStr("CONTAINS"), values |-> JList(<<>>)]),
     JObj([type |-> JStr("REGEX"), value |-> J_BODY("u")]),
     JObj([type |-> JStr("REGEX"), pattern |-> JStr(S_x)]),
     JObj([type |-> JStr("BODY")]), JObj([type |-> JStr("STRING")])}

JsonSample ==
    {J_BODY("u"), J_QUERY_ARRAY("a"), J_STRING(S_x), J_UnknownType,
     J_AND(<<>>), J_OR(<<J_BODY("u")>>), J_NOT(J_STRING(S_x)), JObj([type |-> JStr("NOT")]),
     J_EQUALS(J_BODY("u"), J_STRING(S_x)), J_EQUALS(J_BODY("u"), J_QUERY_ARRAY("a")),
     J_CONTAINS(J_QUERY_ARRAY("a"), <<J_STRING(S_x)>>), J_CONTAINS(J_BODY("u"), <<>>),
     J_CONTAINS(J_QUERY_ARRAY("a"), <<J_QUERY_ARRAY("a")>>),
     J_REGEX(J_BODY("u"), S_x), J_REGEX(J_QUERY_ARRAY("a"), S_x), J_REGEX(J_BODY("u"), S_paren)}

JsonListSample ==
    {J_QUERY_ARRAY("a"), J_BODY("u"), J_AND(<<>>), J_UnknownType}

JsonExpressions ==
    JsonLeaves \cup JsonIncomplete
    \cup JsonComposites(JsonLeaves, JsonLeaves)
    \cup JsonComposites(JsonSample, JsonListSample)

(***************************************************************************)
(* The builder as a program: one call of build_expression on one input.    *)
(***************************************************************************)
None == <<"none">>

BuildIdle == bIn = None /\ bOut = None
\* no evaluation yet
NoResult == [val |-> None, log |-> <<>>]

EvalIdle == eExpr = None /\ eFetch = None /\ eOut = NoResult
\* no file yet
NoFiles == [n \in {"in", "out", "out2"} |-> None]

MigrIdle == files = NoFiles /\ mExit = "-"
ServIdle == cfgData = None /\ phase = "-" /\ servers = None /\ th = <<>>

InitBuild ==
    /\ bIn \in JsonExpressions
    /\ bOut = None
    /\ EvalIdle /\ MigrIdle /\ ServIdle

Build ==
    /\ bIn # None /\ bOut = None
    /\ bOut' = build_expression(bIn)
    /\ UNCHANGED <<bIn, evalVars, migrVars, servVars>>

NextBuild == Build

SpecBuild == InitBuild /\ [][NextBuild]_vars

(***************************************************************************)
(* The evaluator as a program: one built expression evaluated against the  *)
(* fetchers of one request.                                                *)
(***************************************************************************)
S_1 == <<"1">>
S_2 == <<"2">>
S_3 == <<"3">>
S_12 == <<"1", ",", "2">>
S_true == <<"t", "r", "u", "e">>
S_false == <<"f", "a", "l", "s", "e">>

\* boolean expressions whose value depends on the query, the body and the path
EvalAtoms ==
    {J_EQUALS(J_QUERY("a"), J_STRING(S_x)),
     J_EQUALS(J_BODY("u"), J_STRING(S_1)),
     J_CONTAINS(J_QUERY_ARRAY("a"), <<J_STRING(S_1), J_STRING(S_2)>>),
     J_NOT(J_REGEX(J_PATH("p"), S_x))}

EvalJson ==
    {J_BODY("u"), J_BODY("v"), J_QUERY("a"), J_QUERY("b"), J_QUERY_ARRAY("a"), J_QUERY_ARRAY("b"),
     J_PATH("p"), J_PATH("q"), J_STRING(S_x), J_STRING(<<>>)}
    \cup EvalAtoms
    \cup {J_AND(xs) : xs \in SeqsUpTo(EvalAtoms, MaxChildren)}
    \cup {J_OR(xs) : xs \in SeqsUpTo(EvalAtoms, MaxChildren)}
    \cup {J_AND(<<J_OR(<<a, b>>), c>>) : a \in EvalAtoms, b \in EvalAtoms, c \in EvalAtoms}
    \cup {J_OR(<<J_AND(<<a, b>>), c>>) : a \in EvalAtoms, b \in EvalAtoms, c \in EvalAtoms}

EvalExpressions == {e \in {build_expression(j) : j \in EvalJson} : ~IsRaise(e)}

\* what read_body can hand to create_fetchers
BodyValues ==
    {JStr(S_x), JStr(S_1), JStr(S_true), JStr(<<>>), JNum(0), JNum(1), JNum(12), JNum(0 - 3),
     JBool(TRUE), JBool(FALSE), JNull, JList(<<JStr(S_x), JStr(S_y)>>)}

Bodies ==
    {JNull, JObj(<<>>)}
    \cup {JObj([u |-> v]) : v \in BodyValues}
    \cup {JList(<<JNum(1)>>), JStr(S_x), JNum(5), JBool(TRUE)}

QueryValues == {S_x, S_12, S_3, <<",">>}

ArgsUniverse == {[a |-> vs] : vs \in SeqsUpTo(QueryValues, MaxValues)}

PathUniverse == {[p |-> S_x], [p |-> S_1]}

DefaultBody == JObj([u |-> JNum(1)])
DefaultArgs == [a |-> <<S_x>>]
DefaultPath == [p |-> S_1]

EvalFetchers ==
    {create_fetchers(b, DefaultArgs, DefaultPath) : b \in Bodies}
    \cup {create_fetchers(DefaultBody, a, p) : a \in ArgsUniverse, p \in PathUniverse}

InitEval ==
    /\ eExpr \in EvalExpressions
    /\ eFetch \in EvalFetchers
    /\ eOut = NoResult
    /\ BuildIdle /\ MigrIdle /\ ServIdle

Evaluate ==
    /\ eExpr # None /\ eOut = NoResult
    /\ eOut' = evaluate(eExpr, eFetch, <<>>)
    /\ UNCHANGED <<eExpr, eFetch, buildVars, migrVars, servVars>>

NextEval == Evaluate

SpecEval == InitEval /\ [][NextEval]_vars

(***************************************************************************)
(* The migrator as a program: main(input_file, output_file), run on the    *)
(* input file and then again on its own output.                            *)
(***************************************************************************)
S_u == <<"u">>
S_BODY == <<"B", "O", "D", "Y">>
S_AND == <<"A", "N", "D">>

Shorthand(v) == JObj([key |-> JStr(S_u), type |-> JStr(S_BODY), value |-> v])

Canonical(v) ==
    JObj([type |-> JStr(S_EQUALS),
          left |-> JObj([type |-> JStr(S_BODY), id |-> JStr(S_u)]),
          right |-> JObj([type |-> JStr(S_STRING), value |-> v])])

\* elements of a "params" array: shorthand, shorthand lacking a field, canonical
MigrElements ==
    {Shorthand(JStr(S_x)), JObj([key |-> JStr(S_u), type |-> JStr(S_BODY)]), Canonical(JStr(S_x))}

\* elements holding a "params" array of their own
MigrNested ==
    {JObj([type |-> JStr(S_AND), params |-> JList(<<e>>)]) : e \in MigrElements}
    \cup {Shorthand(JObj([params |-> JList(<<e>>)])) : e \in MigrElements}
    \cup {JObj([key |-> JStr(S_u), type |-> JStr(S_BODY), value |-> JStr(S_x),
                params |-> JList(<<e>>)]) : e \in MigrElements}

\* elements that are no objects
MigrScalars == {JStr(S_x), JNum(1)}

MigrParams == SeqsUpTo(MigrElements \cup MigrNested \cup MigrScalars, MaxParams)

MigrInputs ==
    {JStr(S_x), JNum(1), JNull}
    \cup {JObj([params |-> JList(ps)]) : ps \in MigrParams}
    \cup {JObj([mappings |-> JList(<<JObj([params |-> JList(ps), code |-> JNum(200)])>>)]) : ps \in MigrParams}
    \cup {JList(<<JObj([params |-> JList(ps)])>>) : ps \in MigrParams}
    \cup {JObj([params |-> JObj([params |-> JList(ps)])]) : ps \in MigrParams}

FileNames == DOMAIN NoFiles

InitMigrate ==
    /\ \E x \in MigrInputs : files = [n \in FileNames |-> IF n = "in" THEN x ELSE None]
    /\ mExit = "-"
    /\ BuildIdle /\ EvalIdle /\ ServIdle

\* main(input_file, output_file): an uncaught exception ends the run before the
\* output file is opened
MigratorMain(input_file, output_file) ==
    /\ files[input_file] # None /\ files[output_file] = None
    /\ LET transformed == transform_structure(files[input_file])
       IN IF IsRaise(transformed)
          THEN /\ mExit' = "1"
               /\ UNCHANGED files
          ELSE /\ mExit' = "0"
               /\ files' = [files EXCEPT ![output_file] = transformed]
    /\ UNCHANGED <<buildVars, evalVars, servVars>>

FirstRun == MigratorMain("in", "out")

SecondRun == MigratorMain("out", "out2")

NextMigrate == FirstRun \/ SecondRun

SpecMigrate == InitMigrate /\ [][NextMigrate]_vars

(***************************************************************************)
(* The server as a program (cli.py main): the configuration is loaded,     *)
(* and, unless it is rejected, each thread handles one request after the   *)
(* other with the handler of the endpoint the request is routed to.        *)
(***************************************************************************)
JsonContent == JObj([type |-> JStr("JSON"), data |-> JObj([ok |-> JBool(TRUE)])])
FileContent == JObj([type |-> JStr("FILE"), data |-> JObj([path |-> JStr("hello.txt")])])

\* mappings told apart by their codes, with params over the query, the body
\* and the path; the last one has a param that is no boolean
MappingPool ==
    {JObj([params |-> JList(<<J_EQUALS(J_QUERY("a"), J_STRING(S_x))>>),
           code |-> JNum(201), content |-> JsonContent]),
     JObj([params |-> JList(<<J_EQUALS(J_BODY("u"), J_STRING(S_1))>>),
           content |-> JsonContent]),
     JObj(<<>>),
     JObj([params |-> JList(<<J_CONTAINS(J_QUERY_ARRAY("a"), <<J_STRING(S_1), J_STRING(S_2)>>),
                              J_EQUALS(J_PATH("p"), J_STRING(S_1))>>),
           code |-> JNum(202), content |-> FileContent]),
     JObj([params |-> JList(<<J_BODY("u")>>), code |-> JNum(203)])}

\* mappings with every combination of a given or omitted code and content
CodeChoices == {JNull, JNum(200), JNum(404), JNum(0)}
ContentChoices == {JNull, JsonContent, FileContent, JObj(<<>>)}

MappingVariants ==
    {JObj([code |-> c, content |-> k]) : c \in CodeChoices, k \in ContentChoices}
    \cup {JObj([code |-> c]) : c \in CodeChoices}
    \cup {JObj([content |-> k]) : k \in ContentChoices}

BadMapping == JObj([params |-> JList(<<J_NOT(J_STRING(S_x))>>)])

EndpointJson(verb, mappings) ==
    JObj([path |-> JStr("/e/:p"), verb |-> JStr(verb), mappings |-> JList(mappings)])

ConfigurationJson(port, endpoints) ==
    JObj([port |-> JNum(port), endpoint |-> JList(endpoints)])

GetConfiguration ==
    ConfigurationJson(8001,
        <<EndpointJson("GET", <<JObj([params |-> JList(<<J_EQUALS(J_BODY("u"), J_STRING(S_1))>>),
                                      code |-> JNum(201)]),
                                JObj([params |-> JList(<<J_EQUALS(J_BODY("u"), J_STRING(<<>>))>>)])>>),
          JObj(<<>>)>>)

PutConfiguration ==
    ConfigurationJson(8002,
        <<EndpointJson("PUT", <<JObj([params |-> JList(<<J_EQUALS(J_BODY("u"), J_STRING(S_1))>>),
                                      code |-> JNum(201)])>>),
          EndpointJson("DELETE", <<JObj([params |-> JList(<<J_REGEX(J_BODY("u"), S_1)>>),
                                         content |-> JsonContent])>>)>>)

BadConfiguration == ConfigurationJson(8003, <<EndpointJson("GET", <<BadMapping>>)>>)

\* the top-level shapes of a configuration file
TopLevelConfigs ==
    {JObj([servers |-> JList(<<>>)]),
     JObj([servers |-> JNull]),
     JObj([servers |-> JList(<<>>), port |-> JNum(8001), endpoint |-> JList(<<>>)]),
     JObj([servers |-> JList(<<GetConfiguration>>)]),
     JObj([servers |-> JList(<<GetConfiguration, PutConfiguration>>)]),
     JObj([servers |-> JList(<<GetConfiguration, BadConfiguration>>)]),
     JObj([servers |-> JList(<<JObj(<<>>)>>)]),
     JObj(<<>>),
     GetConfiguration,
     PutConfiguration,
     BadConfiguration}

ConfigFiles ==
    TopLevelConfigs
    \cup {ConfigurationJson(8000, <<EndpointJson("POST", ms)>>) : ms \in SeqsUpTo(MappingPool, MaxMappings)}
    \cup {ConfigurationJson(8000, <<EndpointJson("POST", <<m>>)>>) : m \in MappingVariants}

\* request bodies
JsonBodies ==
    {JNull, JBool(FALSE), JNum(0), JStr(<<>>), JList(<<>>), JObj(<<>>),
     JObj([u |-> JNum(1)]), JObj([u |-> JStr(S_1)]), JObj([u |-> JBool(TRUE)]), JObj([u |-> JNull]),
     JList(<<JNum(1)>>), JStr(S_x), JNum(5), JBool(TRUE)}

RequestBodies ==
    {[content_type |-> "application/json", data |-> d] : d \in JsonBodies \cup {Unparseable}}
    \cup {[content_type |-> "application/json; charset=utf-8", data |-> JObj([u |-> JNum(1)])],
          [content_type |-> "application/x-www-form-urlencoded", data |-> <<"form", [u |-> <<S_1>>]>>],
          [content_type |-> "application/x-www-form-urlencoded", data |-> <<"form", [u |-> <<S_1, S_2>>]>>],
          [content_type |-> "application/x-www-form-urlencoded", data |-> <<"form", <<>>>>],
          [content_type |-> "multipart/form-data", data |-> <<"form", [u |-> <<S_1>>]>>],
          [content_type |-> "text/plain", data |-> JObj([u |-> JNum(1)])],
          [content_type |-> "", data |-> JNull]}

DefaultRequestBody == [content_type |-> "application/json", data |-> JObj([u |-> JNum(1)])]

\* the requests a client can send to a route
Requests ==
    {[content_type |-> b.content_type, data |-> b.data, args |-> DefaultArgs, path_params |-> DefaultPath]
        : b \in RequestBodies}
    \cup {[content_type |-> DefaultRequestBody.content_type, data |-> DefaultRequestBody.data,
           args |-> a, path_params |-> pp] : a \in ArgsUniverse, pp \in PathUniverse}

NoRequest ==
    [server |-> 0, endpoint |-> 0, method |-> "-", content_type |-> "-", data |-> None,
     args |-> <<>>, path_params |-> <<>>]
NoFetchers == [body_fetcher |-> None, args |-> <<>>, path_params |-> <<>>]
NoResponse == [mapping |-> 0, status |-> 0, body |-> None]

IdleThread ==
    [pc |-> "idle", req |-> NoRequest, body |-> None, fetchers |-> NoFetchers,
     idx |-> 0, resp |-> NoResponse]

Init ==
    /\ cfgData \in ConfigFiles
    /\ phase = "start"
    /\ servers = None
    /\ th = [t \in {1} |-> IdleThread]
    /\ BuildIdle /\ EvalIdle /\ MigrIdle

\* main: parse_configuration_file; on an exception print it and sys.exit(2),
\* else start one server per configuration
LoadConfig ==
    /\ phase = "start"
    /\ servers' = parse_servers(cfgData)
    /\ phase' = IF IsRaise(servers') THEN "exit2" ELSE "serving"
    /\ UNCHANGED <<cfgData, th, buildVars, evalVars, migrVars>>

\* the endpoint a thread's request was routed to
EndpointOf(t) == servers[2][th[t].req.server].endpoints[th[t].req.endpoint]

\* a request arrives on the route of endpoint e of server s and a thread of
\* that server starts its handler
ReceiveFrom(t, requests) ==
    /\ phase = "serving"
    /\ th[t].pc \in {"idle", "done"}
    /\ \E s \in 1..Len(servers[2]) : \E e \in 1..Len(servers[2][s].endpoints) : \E r \in requests :
          th' = [th EXCEPT ![t] =
                    [pc |-> "read_body",
                     req |-> [server |-> s, endpoint |-> e,
                              method |-> servers[2][s].endpoints[e].verb,
                              content_type |-> r.content_type, data |-> r.data,
                              args |-> r.args, path_params |-> r.path_params],
                     body |-> None, fetchers |-> NoFetchers, idx |-> 0, resp |-> NoResponse]]
    /\ UNCHANGED <<cfgData, phase, servers, buildVars, evalVars, migrVars>>

Receive(t) == ReceiveFrom(t, Requests)

\* handler: body = None; if request.method in (...): body = read_body()
ReadBody(t) ==
    /\ th[t].pc = "read_body"
    /\ th' = [th EXCEPT ![t].body = IF th[t].req.method \in {"POST", "PUT", "DELETE"}
                                     THEN read_body(th[t].req) ELSE JNull,
                        ![t].pc = "create_fetchers"]
    /\ UNCHANGED <<cfgData, phase, servers, buildVars, evalVars, migrVars>>

\* a faulty variant, for comparison: the closures of create_fetchers read a
\* request object shared by the whole process, which holds the request of any
\* handler that is running
CreateFetchers_shared(t) ==
    /\ th[t].pc = "create_fetchers"
    /\ \E u \in DOMAIN th :
          /\ th[u].pc # "idle"
          /\ th' = [th EXCEPT ![t].fetchers = create_fetchers(th[t].body, th[u].req.args, th[u].req.path_params),
                              ![t].idx = 1,
                              ![t].pc = "mappings"]
    /\ UNCHANGED <<cfgData, phase, servers, buildVars, evalVars, migrVars>>

\* handler: fetchers = create_fetchers(body, path_params)
CreateFetchers(t) ==
    /\ th[t].pc = "create_fetchers"
    /\ th' = [th EXCEPT ![t].fetchers = create_fetchers(th[t].body, th[t].req.args, th[t].req.path_params),
                        ![t].idx = 1,
                        ![t].pc = "mappings"]
    /\ UNCHANGED <<cfgData, phase, servers, buildVars, evalVars, migrVars>>

\* handler: one turn of "for mapping in endpoint.mappings"
TryMapping(t) ==
    /\ th[t].pc = "mappings"
    /\ th[t].idx <= Len(EndpointOf(t).mappings)
    /\ LET mapping == EndpointOf(t).mappings[th[t].idx]
           matched == all_match(th[t].fetchers, mapping.params)
       IN IF IsRaise(matched)
          THEN th' = [th EXCEPT ![t].resp = InternalServerError(matched), ![t].pc = "done"]
          ELSE IF matched[2]
          THEN \E file_exists \in BOOLEAN :
                  th' = [th EXCEPT ![t].resp = build_response(mapping, th[t].idx, file_exists),
                                   ![t].pc = "done"]
          ELSE th' = [th EXCEPT ![t].idx = th[t].idx + 1]
    /\ UNCHANGED <<cfgData, phase, servers, buildVars, evalVars, migrVars>>

\* handler: no mapping matched
NotFound(t) ==
    /\ th[t].pc = "mappings"
    /\ th[t].idx > Len(EndpointOf(t).mappings)
    /\ th' = [th EXCEPT ![t].resp = NotFoundResponse, ![t].pc = "done"]
    /\ UNCHANGED <<cfgData, phase, servers, buildVars, evalVars, migrVars>>

Next ==
    \/ LoadConfig
    \/ \E t \in DOMAIN th : Receive(t)
    \/ \E t \in DOMAIN th : ReadBody(t)
    \/ \E t \in DOMAIN th : CreateFetchers(t)
    \/ \E t \in DOMAIN th : TryMapping(t)
    \/ \E t \in DOMAIN th : NotFound(t)

Spec == Init /\ [][Next]_vars

(***************************************************************************)
(* The server under concurrent requests.  main starts one thread per       *)
(* configuration (cli.py), each server is threaded (make_server(...,       *)
(* threaded=True)), and flask.request is local to the handler's context:   *)
(* every handler runs on its own request while the steps of the handlers   *)
(* interleave in any order.                                                *)
(***************************************************************************)
MaxHandlers == 2

Handlers == 1..MaxHandlers

QueryMapping ==
    JObj([params |-> JList(<<J_EQUALS(J_QUERY("a"), J_STRING(S_x))>>),
          code |-> JNum(201), content |-> JsonContent])
BodyMapping ==
    JObj([params |-> JList(<<J_EQUALS(J_BODY("u"), J_STRING(S_1))>>), content |-> JsonContent])
PathMapping ==
    JObj([params |-> JList(<<J_EQUALS(J_PATH("p"), J_STRING(S_1))>>),
          code |-> JNum(202), content |-> FileContent])

\* one server with one endpoint, and two servers with one endpoint each
ConcConfigFiles ==
    {ConfigurationJson(8000, <<EndpointJson("POST", <<QueryMapping, BodyMapping, PathMapping>>)>>),
     JObj([servers |-> JList(<<
         ConfigurationJson(8001, <<EndpointJson("GET", <<QueryMapping, JObj(<<>>)>>)>>),
         ConfigurationJson(8002, <<EndpointJson("PUT", <<BodyMapping>>)>>)>>)])}

\* requests that differ in their body, their query and their path data
ConcRequests ==
    {[content_type |-> "application/json", data |-> JObj([u |-> JNum(1)]),
      args |-> [a |-> <<S_x>>], path_params |-> [p |-> S_1]],
     [content_type |-> "application/json", data |-> JList(<<JNum(1)>>),
      args |-> [a |-> <<>>], path_params |-> [p |-> S_x]],
     [content_type |-> "application/json", data |-> JObj(<<>>),
      args |-> [a |-> <<S_12>>], path_params |-> [p |-> S_1]]}

InitConc ==
    /\ cfgData \in ConcConfigFiles
    /\ phase = "start"
    /\ servers = None
    /\ th = [t \in Handlers |-> IdleThread]
    /\ BuildIdle /\ EvalIdle /\ MigrIdle

ReceiveConc(t) == ReceiveFrom(t, ConcRequests)

NextConc ==
    \/ LoadConfig
    \/ \E t \in DOMAIN th : ReceiveConc(t)
    \/ \E t \in DOMAIN th : ReadBody(t)
    \/ \E t \in DOMAIN th : CreateFetchers(t)
    \/ \E t \in DOMAIN th : TryMapping(t)
    \/ \E t \in DOMAIN th : NotFound(t)

SpecConc == InitConc /\ [][NextConc]_vars

(***************************************************************************)
(* C2.  Type-check soundness.                                              *)
(***************************************************************************)
RECURSIVE WellTyped(_)
\* the static invariants, at every depth of a built tree
WellTyped(e) ==
    CASE e[1] \in {"AND", "OR"} ->
            \A i \in 1..Len(e[2]) : return_type(e[2][i]) = "bool" /\ WellTyped(e[2][i])
      [] e[1] = "NOT" -> return_type(e[2]) = "bool" /\ WellTyped(e[2])
      [] e[1] = "EQUALS" ->
            return_type(e[2]) = return_type(e[3]) /\ WellTyped(e[2]) /\ WellTyped(e[3])
      [] e[1] = "CONTAINS" ->
            /\ return_type(e[2]) = "list" /\ WellTyped(e[2])
            /\ \A i \in 1..Len(e[3]) : return_type(e[3][i]) = "str" /\ WellTyped(e[3][i])
      [] e[1] = "REGEX" -> return_type(e[2]) = "str" /\ WellTyped(e[2])
      [] OTHER -> e[1] \in {"BODY", "QUERY", "QUERY_ARRAY", "PATH", "STRING"}

\* the "type" discriminator of a JSON node, "?" when unknown or missing
JsonTag(j) ==
    IF Kind(j) = "obj" /\ HasKey(j, "type") /\ Kind(Item(j, "type")) = "str"
       /\ Item(j, "type")[2] \in EXPRESSION_REGISTRY
    THEN Item(j, "type")[2] ELSE "?"

\* the return type the data model declares for a JSON node's variant
JsonReturnType(j) ==
    CASE JsonTag(j) \in {"AND", "OR", "NOT", "CONTAINS", "EQUALS", "REGEX"} -> "bool"
      [] JsonTag(j) \in {"BODY", "QUERY", "PATH", "STRING"} -> "str"
      [] JsonTag(j) = "QUERY_ARRAY" -> "list"
      [] OTHER -> "?"

\* the JSON nodes standing where the builder expects a child expression
JsonChildren(j) ==
    LET f == j[2]
        lst(k) == IF k \in DOMAIN f /\ Kind(f[k]) = "list" THEN {f[k][2][i] : i \in 1..Len(f[k][2])} ELSE {}
        one(k) == IF k \in DOMAIN f THEN {f[k]} ELSE {}
    IN CASE JsonTag(j) \in {"AND", "OR"} -> lst("expressions")
         [] JsonTag(j) = "NOT" -> one("expression")
         [] JsonTag(j) = "EQUALS" -> one("left") \cup one("right")
         [] JsonTag(j) = "CONTAINS" -> one("list") \cup lst("values")
         [] JsonTag(j) = "REGEX" -> one("value")
         [] OTHER -> {}

RECURSIVE JsonViolates(_)
\* a JSON expression that breaks a static invariant at some depth
JsonViolates(j) ==
    \/ JsonTag(j) = "?"
    \/ \E c \in JsonChildren(j) : JsonViolates(c)
    \/ /\ JsonTag(j) \in {"AND", "OR", "NOT"}
       /\ \E c \in JsonChildren(j) : JsonReturnType(c) # "bool"
    \/ /\ JsonTag(j) = "EQUALS" /\ HasKey(j, "left") /\ HasKey(j, "right")
       /\ JsonReturnType(Item(j, "left")) # JsonReturnType(Item(j, "right"))
    \/ /\ JsonTag(j) = "CONTAINS"
       /\ \/ HasKey(j, "list") /\ JsonReturnType(Item(j, "list")) # "list"
          \/ HasKey(j, "values") /\ \E i \in 1..Len(Item(j, "values")[2]) :
                JsonReturnType(Item(j, "values")[2][i]) # "str"
    \/ /\ JsonTag(j) = "REGEX" /\ HasKey(j, "value")
       /\ JsonReturnType(Item(j, "value")) # "str"

\* C2: every tree build_expression returns satisfies the static invariants at
\* every depth, and every JSON expression that breaks one of them (a child of
\* the wrong return type, an unknown or missing "type") is answered by a raise.
C2_TypeCheckSound ==
    bOut # None =>
        /\ ~IsRaise(bOut) => WellTyped(bOut)
        /\ JsonViolates(bIn) => IsRaise(bOut)

\* a nested tree was accepted: the checks of a parent and of its children ran
C2_Witness ==
    /\ bOut # None /\ ~IsRaise(bOut)
    /\ bOut[1] = "AND" /\ Len(bOut[2]) = 2
    /\ bOut[2][1][1] = "CONTAINS" /\ bOut[2][2][1] = "EQUALS"

\* a nested violation was rejected
C2_WitnessRejected ==
    /\ bOut # None /\ IsRaise(bOut)
    /\ bIn = J_AND(<<J_NOT(J_STRING(S_x)), J_AND(<<>>)>>)

(***************************************************************************)
(* C3.  Short-circuit evaluation in declaration order.                     *)
(***************************************************************************)
RECURSIVE NodeAt(_, _)
\* the node of a built tree at a path
NodeAt(e, path) ==
    IF Len(path) = 0 THEN e
    ELSE LET c == CASE e[1] \in {"AND", "OR"} -> e[2][path[1]]
                    [] e[1] \in {"NOT", "REGEX"} -> e[2]
                    [] e[1] = "EQUALS" -> e[1 + path[1]]
                    [] e[1] = "CONTAINS" -> IF path[1] = 1 THEN e[2] ELSE e[3][path[1] - 1]
         IN NodeAt(c, Tail(path))

\* the evaluations of the children of the node at path, in call order
ChildCalls(log, path) ==
    LET IsChild(q) == Len(q) = Len(path) + 1 /\ SubSeq(q, 1, Len(path)) = path
    IN SelectSeq(log, IsChild)

\* the value of child i of an AND / OR node, evaluated on its own
ChildValue(node, i, fetchers) == evaluate(node[2][i], fetchers, <<>>).val

\* child i ends the loop of an AND / OR node: it is falsy (AND) or truthy (OR),
\* or its evaluation raises
Decides(node, i, fetchers) ==
    LET v == ChildValue(node, i, fetchers)
    IN IF IsRaise(v) THEN TRUE
       ELSE IF node[1] = "AND" THEN ~PyTruthy(v) ELSE PyTruthy(v)

\* the children an AND / OR with n children must evaluate: 1..k, k the first
\* child that ends the loop, all n if none does
ExpectedCalls(node, path, fetchers) ==
    LET n == Len(node[2])
        k == IF \E i \in 1..n : Decides(node, i, fetchers)
             THEN CHOOSE i \in 1..n : Decides(node, i, fetchers)
                                      /\ \A j \in 1..(i - 1) : ~Decides(node, j, fetchers)
             ELSE n
    IN [i \in 1..k |-> Append(path, i)]

\* C3: whenever an AND (an OR) node is evaluated, at any depth, its children
\* are evaluated once each in declaration order up to and including the first
\* falsy (truthy) one, and none after it; all of them if there is no such child.
C3_ShortCircuit ==
    eOut # NoResult =>
        \A n \in 1..Len(eOut.log) :
            LET path == eOut.log[n]
                node == NodeAt(eExpr, path)
            IN node[1] \in {"AND", "OR"}
               => ChildCalls(eOut.log, path) = ExpectedCalls(node, path, eFetch)

\* an AND of three children stopped at its second child
C3_Witness ==
    /\ eOut # NoResult
    /\ eExpr[1] = "AND" /\ Len(eExpr[2]) = 3
    /\ PyTruthy(ChildValue(eExpr, 1, eFetch))
    /\ ~PyTruthy(ChildValue(eExpr, 2, eFetch))
    /\ PyTruthy(ChildValue(eExpr, 3, eFetch))
    /\ ChildCalls(eOut.log, <<>>) = <<<<1>>, <<2>>>>
    /\ eOut.val = JBool(FALSE)

\* an OR of three children stopped at its second child
C3_WitnessOr ==
    /\ eOut # NoResult
    /\ eExpr[1] = "OR" /\ Len(eExpr[2]) = 3
    /\ ~PyTruthy(ChildValue(eExpr, 1, eFetch))
    /\ PyTruthy(ChildValue(eExpr, 2, eFetch))
    /\ ChildCalls(eOut.log, <<>>) = <<<<1>>, <<2>>>>
    /\ eOut.val = JBool(TRUE)

(***************************************************************************)
(* C4.  BODY(id): conversion of the body map's value to a string.          *)
(***************************************************************************)
RECURSIVE DecValue(_)
\* the number a string of decimal digits denotes
DecValue(s) ==
    IF Len(s) = 0 THEN 0
    ELSE 10 * DecValue(SubSeq(s, 1, Len(s) - 1))
         + (CHOOSE d \in 0..9 : Digits[d + 1] = s[Len(s)])

IsDigits(s) ==
    /\ Len(s) > 0
    /\ \A i \in 1..Len(s) : \E d \in 0..9 : Digits[d + 1] = s[i]
    /\ Len(s) > 1 => s[1] # "0"

\* s is the decimal form of the integer n
IsDecimalOf(s, n) ==
    IF n < 0 THEN Len(s) > 1 /\ s[1] = "-" /\ IsDigits(Tail(s)) /\ DecValue(Tail(s)) = 0 - n
    ELSE IsDigits(s) /\ DecValue(s) = n

\* s is the canonical conversion of the body value v
IsCanonical(s, v) ==
    CASE Kind(v) = "str" -> s = v[2]
      [] Kind(v) = "num" -> IsDecimalOf(s, v[2])
      [] Kind(v) = "bool" -> s = (IF v[2] THEN S_true ELSE S_false)
      [] Kind(v) = "null" -> s = <<>>
      [] OTHER -> TRUE

\* the body map's value for id (null when missing)
BodyValue(fetchers, id) ==
    IF HasKey(fetchers.body_fetcher, id) THEN Item(fetchers.body_fetcher, id) ELSE JNull

\* C4: BODY(id), evaluated against a body map, yields the canonical conversion
\* of the map's value for id: a string as is, a number in decimal, true as
\* "true", false as "false", null or missing as "".
C4_BodyCanonical ==
    (eOut # NoResult /\ eExpr[1] = "BODY" /\ Kind(eFetch.body_fetcher) = "obj") =>
        /\ Kind(eOut.val) = "str"
        /\ IsCanonical(eOut.val[2], BodyValue(eFetch, eExpr[2]))

\* C4 without the booleans: what the evaluator does guarantee
C4_BodyCanonicalButBool ==
    (/\ eOut # NoResult /\ eExpr[1] = "BODY" /\ Kind(eFetch.body_fetcher) = "obj"
     /\ Kind(BodyValue(eFetch, eExpr[2])) # "bool") =>
        /\ Kind(eOut.val) = "str"
        /\ IsCanonical(eOut.val[2], BodyValue(eFetch, eExpr[2]))

\* a boolean body value went through BODY
C4_Reached ==
    /\ eOut # NoResult /\ eExpr[1] = "BODY" /\ Kind(eFetch.body_fetcher) = "obj"
    /\ BodyValue(eFetch, eExpr[2]) = JBool(TRUE)
    /\ eOut.val = JStr(<<"T", "r", "u", "e">>)

(***************************************************************************)
(* C5.  QUERY_ARRAY(id): comma split of the scalar value, else all values. *)
(***************************************************************************)
RECURSIVE Join(_, _)
\* sep.join(parts)
Join(parts, sep) ==
    IF Len(parts) = 0 THEN <<>>
    ELSE IF Len(parts) = 1 THEN parts[1]
    ELSE parts[1] \o <<sep>> \o Join(Tail(parts), sep)

\* parts is s split on commas, verbatim: joined by commas they give s back,
\* and no part holds a comma
IsCommaSplit(parts, s) ==
    /\ Len(parts) > 0
    /\ Join(parts, ",") = s
    /\ \A i \in 1..Len(parts) : \A j \in 1..Len(parts[i]) : parts[i][j] # ","

\* all the values the request holds for a key, in order
AllValues(fetchers, key) == IF key \in DOMAIN fetchers.args THEN fetchers.args[key] ELSE <<>>

\* the scalar value of a key: its first value, "" if absent
ScalarValue(fetchers, key) ==
    IF Len(AllValues(fetchers, key)) > 0 THEN AllValues(fetchers, key)[1] ELSE <<>>

HasComma(s) == \E i \in 1..Len(s) : s[i] = ","

\* C5: QUERY_ARRAY(id) is the first value of the key split on commas when that
\* value holds a comma (the other repetitions are dropped), and otherwise all
\* the values of the key in order.
C5_QueryArray ==
    (eOut # NoResult /\ eExpr[1] = "QUERY_ARRAY") =>
        /\ Kind(eOut.val) = "list"
        /\ IF HasComma(ScalarValue(eFetch, eExpr[2]))
           THEN IsCommaSplit(eOut.val[2], ScalarValue(eFetch, eExpr[2]))
           ELSE eOut.val[2] = AllValues(eFetch, eExpr[2])

\* ?a=1,2&a=3 gave ["1", "2"]
C5_Witness ==
    /\ eOut # NoResult /\ eExpr = <<"QUERY_ARRAY", "a">>
    /\ eFetch.args["a"] = <<S_12, S_3>>
    /\ eOut.val = JList(<<S_1, S_2>>)

\* ?a=3&a=1,2 gave ["3", "1,2"]: the first value holds no comma
C5_WitnessNoComma ==
    /\ eOut # NoResult /\ eExpr = <<"QUERY_ARRAY", "a">>
    /\ eFetch.args["a"] = <<S_3, S_12>>
    /\ eOut.val = JList(<<S_3, S_12>>)

(***************************************************************************)
(* C8.  The migrator rewrites the shorthand elements of "params" arrays.   *)
(***************************************************************************)
IsShorthand(v) ==
    Kind(v) = "obj" /\ {"key", "type", "value"} \subseteq DOMAIN v[2]

RECURSIVE HasShorthand(_)
\* some "params" array, at any depth of v, holds a shorthand element
HasShorthand(v) ==
    CASE Kind(v) = "obj" ->
            \E k \in DOMAIN v[2] :
                \/ /\ k = "params" /\ Kind(v[2][k]) = "list"
                   /\ \E i \in 1..Len(v[2][k][2]) : IsShorthand(v[2][k][2][i])
                \/ HasShorthand(v[2][k])
      [] Kind(v) = "list" -> \E i \in 1..Len(v[2]) : HasShorthand(v[2][i])
      [] OTHER -> FALSE

RECURSIVE HasOuterShorthand(_)
\* some "params" array of v that lies inside no element of another "params"
\* array holds a shorthand element
HasOuterShorthand(v) ==
    CASE Kind(v) = "obj" ->
            \E k \in DOMAIN v[2] :
                IF k = "params" /\ Kind(v[2][k]) = "list"
                THEN \E i \in 1..Len(v[2][k][2]) : IsShorthand(v[2][k][2][i])
                ELSE HasOuterShorthand(v[2][k])
      [] Kind(v) = "list" -> \E i \in 1..Len(v[2]) : HasOuterShorthand(v[2][i])
      [] OTHER -> FALSE

\* C8: the migrator's output holds no shorthand element inside any "params"
\* array, at any nesting depth, "params" arrays nested inside an element of
\* another "params" array included.
C8_NoShorthandLeft ==
    files["out"] # None => ~HasShorthand(files["out"])

\* what the migrator does guarantee: no shorthand is left in the "params"
\* arrays that lie outside the elements of other "params" arrays
C8_NoOuterShorthandLeft ==
    files["out"] # None => ~HasOuterShorthand(files["out"])

\* a nested "params" array went through the migrator
C8_Reached ==
    /\ files["out"] # None
    /\ files["in"] = JObj([params |-> JList(<<JObj([type |-> JStr(S_AND),
                                                     params |-> JList(<<Shorthand(JStr(S_x))>>)])>>)])

(***************************************************************************)
(* C9.  The migrator is idempotent.                                        *)
(***************************************************************************)
\* C9: migrating the migrator's output again gives that output back.
C9_Idempotent ==
    files["out2"] # None => files["out2"] = files["out"]

\* a file with a shorthand element and a nested "params" array was migrated twice
C9_Witness ==
    /\ files["out2"] # None
    /\ HasOuterShorthand(files["in"])
    /\ HasShorthand(files["out"])
    /\ files["out"] # files["in"]

(***************************************************************************)
(* C1.  First-match dispatch.                                              *)
(***************************************************************************)
\* every param of a mapping evaluates to a truthy value
AllTruthy(mapping, fetchers) ==
    \A j \in 1..Len(mapping.params) :
        LET v == evaluate(mapping.params[j], fetchers, <<>>).val
        IN ~IsRaise(v) /\ PyTruthy(v)

\* the first mapping all of whose params are truthy (0: there is none)
FirstMatch(mappings, fetchers) ==
    IF \E i \in 1..Len(mappings) : AllTruthy(mappings[i], fetchers)
    THEN CHOOSE i \in 1..Len(mappings) :
            /\ AllTruthy(mappings[i], fetchers)
            /\ \A k \in 1..(i - 1) : ~AllTruthy(mappings[k], fetchers)
    ELSE 0

\* some param of a mapping up to the first match raises when evaluated
RaisesBeforeMatch(mappings, fetchers) ==
    \E i \in 1..Len(mappings) :
        /\ \A k \in 1..(i - 1) : ~AllTruthy(mappings[k], fetchers)
        /\ IsRaise(all_match(fetchers, mappings[i].params))

\* C1: every handled request is answered by the first mapping, in declaration
\* order, all of whose params evaluate truthy, and by 404 with the body
\* {"error": "No matching mapping found"} when there is no such mapping.
C1_FirstMatch ==
    \A t \in DOMAIN th :
        th[t].pc = "done" =>
            LET i == FirstMatch(EndpointOf(t).mappings, th[t].fetchers)
            IN IF i > 0 THEN th[t].resp.mapping = i ELSE th[t].resp = NotFoundResponse

\* C1 for the requests whose evaluation raises nothing
C1_FirstMatchUnlessRaise ==
    \A t \in DOMAIN th :
        (th[t].pc = "done" /\ ~RaisesBeforeMatch(EndpointOf(t).mappings, th[t].fetchers)) =>
            LET i == FirstMatch(EndpointOf(t).mappings, th[t].fetchers)
            IN IF i > 0 THEN th[t].resp.mapping = i ELSE th[t].resp = NotFoundResponse

\* a request matching two mappings was answered by the first
C1_Reached ==
    \E t \in DOMAIN th :
        /\ th[t].pc = "done" /\ Len(EndpointOf(t).mappings) = 2
        /\ AllTruthy(EndpointOf(t).mappings[1], th[t].fetchers)
        /\ AllTruthy(EndpointOf(t).mappings[2], th[t].fetchers)
        /\ EndpointOf(t).mappings[1] # EndpointOf(t).mappings[2]
        /\ th[t].resp.mapping = 1

(***************************************************************************)
(* C6.  JSON bodies that are no objects.                                   *)
(***************************************************************************)
\* the request reads its body as JSON and the body is no JSON object
NonObjectJsonBody(req) ==
    /\ req.method \in {"POST", "PUT", "DELETE"}
    /\ IsJsonType(req.content_type)
    /\ (req.data = Unparseable \/ Kind(req.data) # "obj")

\* C6: for a POST, PUT or DELETE request whose JSON body is no object, or does
\* not parse, the evaluator is given the empty body map and the request is
\* answered by a mapping or by the 404 response, never by an error.
C6_NonObjectBodyIsEmptyMap ==
    \A t \in DOMAIN th :
        (th[t].pc = "done" /\ NonObjectJsonBody(th[t].req)) =>
            /\ th[t].fetchers.body_fetcher = JObj(<<>>)
            /\ (th[t].resp.mapping > 0 \/ th[t].resp = NotFoundResponse)

\* C6 for the bodies that do not parse or parse to a falsy value
C6_FalsyBodyIsEmptyMap ==
    \A t \in DOMAIN th :
        (/\ th[t].pc = "done" /\ NonObjectJsonBody(th[t].req)
         /\ ~PyTruthy(get_json(th[t].req))) =>
            /\ th[t].fetchers.body_fetcher = JObj(<<>>)
            /\ (th[t].resp.mapping > 0 \/ th[t].resp = NotFoundResponse)

\* a JSON array body reached a BODY expression
C6_Reached ==
    \E t \in DOMAIN th :
        /\ th[t].pc = "done" /\ th[t].req.method = "POST"
        /\ th[t].req.data = JList(<<JNum(1)>>)
        /\ th[t].resp.status = 500

(***************************************************************************)
(* C7.  The response code of a mapping.                                    *)
(***************************************************************************)
\* the configurations of a configuration file, as written
RawConfigurations(data) ==
    IF HasKey(data, "servers") THEN Item(data, "servers")[2] ELSE <<data>>

\* mapping m of endpoint e of server s, as written in the file
RawMapping(data, s, e, m) ==
    Item(Item(RawConfigurations(data)[s], "endpoint")[2][e], "mappings")[2][m]

\* the code the file gives a mapping: its "code", else 204 without content
\* and 200 with content
ConfiguredCode(raw) ==
    IF HasKey(raw, "code") /\ Item(raw, "code") # JNull THEN Item(raw, "code")
    ELSE IF HasKey(raw, "content") /\ Item(raw, "content") # JNull THEN JNum(200)
    ELSE JNum(204)

\* C7: the resp_code of every parsed mapping is the configured "code" when one
\* is given, else 204 if the mapping has no content and 200 if it has; and it
\* is the status of the response when the mapping answers a request.
C7_ResponseCode ==
    phase = "serving" =>
        /\ \A s \in 1..Len(servers[2]) : \A e \in 1..Len(servers[2][s].endpoints) :
              \A m \in 1..Len(servers[2][s].endpoints[e].mappings) :
                  servers[2][s].endpoints[e].mappings[m].resp_code
                      = ConfiguredCode(RawMapping(cfgData, s, e, m))
        /\ \A t \in DOMAIN th :
              (th[t].pc = "done" /\ th[t].resp.mapping > 0 /\ th[t].resp.body[1] # "error") =>
                  th[t].resp.status
                      = ConfiguredCode(RawMapping(cfgData, th[t].req.server, th[t].req.endpoint,
                                                  th[t].resp.mapping))[2]

\* a mapping without code and without content answered with 204
C7_Witness ==
    \E t \in DOMAIN th :
        /\ th[t].pc = "done" /\ th[t].resp.mapping = 1 /\ th[t].resp.status = 204
        /\ RawMapping(cfgData, th[t].req.server, th[t].req.endpoint, 1) = JObj(<<>>)

\* a mapping without code and with content answered with 200
C7_WitnessContent ==
    \E t \in DOMAIN th :
        /\ th[t].pc = "done" /\ th[t].resp.mapping = 1 /\ th[t].resp.status = 200
        /\ RawMapping(cfgData, th[t].req.server, th[t].req.endpoint, 1) = JObj([content |-> JsonContent])

(***************************************************************************)
(* C10.  An empty "servers" list is rejected.                              *)
(***************************************************************************)
\* C10: a configuration whose "servers" is the empty list is rejected with
\* "No server found" and gives no Servers; one without a "servers" key, when
\* it is accepted, gives exactly one Configuration; and every Servers that is
\* returned holds at least one Configuration.
C10_NoServerFound ==
    phase \in {"serving", "exit2"} =>
        /\ (HasKey(cfgData, "servers") /\ Item(cfgData, "servers") = JList(<<>>)) =>
              (servers = Raise("ValueError", "No server found") /\ phase = "exit2")
        /\ (~HasKey(cfgData, "servers") /\ ~IsRaise(servers)) => Len(servers[2]) = 1
        /\ ~IsRaise(servers) => (servers[1] = "Servers" /\ Len(servers[2]) >= 1)

\* {"servers": []} was rejected
C10_Witness ==
    /\ phase = "exit2"
    /\ cfgData = JObj([servers |-> JList(<<>>)])
    /\ servers = Raise("ValueError", "No server found")

\* a file without "servers" was accepted as one configuration
C10_WitnessFallback ==
    /\ phase = "serving"
    /\ ~HasKey(cfgData, "servers")
    /\ Len(servers[2]) = 1 /\ Len(servers[2][1].endpoints) = 2

(***************************************************************************)
(* C11.  Requests handled concurrently do not affect each other.           *)
(***************************************************************************)
\* the fetchers of a request handled alone
AloneFetchers(req) ==
    create_fetchers(IF req.method \in {"POST", "PUT", "DELETE"} THEN read_body(req) ELSE JNull,
                    req.args, req.path_params)

RECURSIVE IsAloneResponse(_, _, _, _)
\* resp is an answer of the handler run alone, from mapping i on
IsAloneResponse(resp, mappings, i, fetchers) ==
    IF i > Len(mappings) THEN resp = NotFoundResponse
    ELSE LET matched == all_match(fetchers, mappings[i].params)
         IN IF IsRaise(matched) THEN resp = InternalServerError(matched)
            ELSE IF matched[2]
            THEN \E file_exists \in BOOLEAN : resp = build_response(mappings[i], i, file_exists)
            ELSE IsAloneResponse(resp, mappings, i + 1, fetchers)

\* the configuration is the one that was parsed, and every handler works on
\* it and on its own request
RespondsAsAlone ==
    phase = "serving" =>
        /\ servers = parse_servers(cfgData)
        /\ \A t \in DOMAIN th :
              /\ th[t].pc \in {"mappings", "done"} => th[t].fetchers = AloneFetchers(th[t].req)
              /\ th[t].pc = "done" =>
                    IsAloneResponse(th[t].resp, EndpointOf(t).mappings, 1,
                                    AloneFetchers(th[t].req))

\* no step taken while serving changes the configuration
ConfigurationUnchanged ==
    phase = "serving" => (servers' = servers /\ cfgData' = cfgData /\ phase' = phase)

\* C11: handling requests never modifies the configuration, and under any
\* interleaving of the handlers' steps every request gets the response it
\* would get handled alone, from its own body, query and path data.
C11_Isolation == [](RespondsAsAlone) /\ [][ConfigurationUnchanged]_vars

\* a handler has answered from its first mapping while another handler, with
\* another request on the same endpoint, is past that mapping
C11_Witness ==
    \E t, u \in DOMAIN th :
        /\ t # u
        /\ th[t].pc = "done" /\ th[t].resp.mapping = 1
        /\ th[u].pc = "mappings" /\ th[u].idx = 2
        /\ th[t].req.server = th[u].req.server /\ th[t].req.endpoint = th[u].req.endpoint
        /\ th[t].req.args # th[u].req.args

\* two handlers on two servers are in their mapping loops at the same time
C11_WitnessServers ==
    \E t, u \in DOMAIN th :
        /\ th[t].pc = "mappings" /\ th[u].pc = "mappings"
        /\ th[t].req.server = 1 /\ th[u].req.server = 2

====
